---- MODULE Spec2Model ----
\* A model of helper.go: one run of the libvirt helper process, from
\* pflag.Parse() to process termination.  The hypervisor library is the
\* environment: each library call is one step whose result is drawn from the
\* results the library can return.
EXTENDS Integers, Sequences, FiniteSets, TLC

\* ---------------------------------------------------------------- bounds

\* Number of domains defined on the host (and so the longest enumeration).
MaxDomains == 2
\* Largest number of command flags set on one command line.
MaxFlags == 2

\* ------------------------------------------------------------- constants

\* libvirt.DomainState values named by the switch of GetVirtualMachineStateInfo.
DOMAIN_NOSTATE == 0
DOMAIN_RUNNING == 1
DOMAIN_BLOCKED == 2
DOMAIN_PAUSED == 3
DOMAIN_SHUTDOWN == 4
DOMAIN_SHUTOFF == 5
DOMAIN_CRASHED == 6
DOMAIN_PMSUSPENDED == 7
\* The kilobyte-to-byte factor of GetVirtualMachineStateInfo.
Kilo == 1024

\* VirtualMachineStatus constants (the strings the code declares).
VirtStatePending == "pending"
VirtStateRunning == "running"
VirtStateBlocked == "blocked"
VirtStatePaused == "paused"
VirtStateShutdown == "shutdown"
VirtStateShutoff == "shutoff"
VirtStateCrashed == "crashed"
VirtStateHybernating == "hybernating"
\* The zero value of VirtualMachineStatus (a Go string).
ZeroStatus == ""

NIL == "nil"

\* ----------------------------------------------------------------- inputs

\* The twelve boolean command flags, in the order main's switch tests them.
FlagOrder ==
  << "state", "soft-reboot", "hard-reboot", "shutdown", "shutoff", "start",
     "pause", "resume", "create", "delete", "ips", "show-all" >>

AllFlags == { FlagOrder[k] : k \in 1..Len(FlagOrder) }

\* The handlers that begin with LookupDomainByName(vm) and end in hok.
OpHandlers ==
  { "soft-reboot", "hard-reboot", "shutdown", "shutoff", "start", "pause",
    "resume", "delete" }

\* The flags whose handler takes --vm.
VmFlags == OpHandlers \cup { "state" }

\* Domains defined on the host; a lookup of any other name fails.
DomainPool == << "testbox", "archived", "web", "db" >>
Defined == { DomainPool[k] : k \in 1..MaxDomains }
VmNames == { "testbox", "ghost" }

\* Template paths: one readable file, one that does not exist.
ReadablePath == "/etc/vm.xml"
XmlPaths == { ReadablePath, "/no/such/file" }

\* Every state code the hypervisor may report: the eight named ones and one
\* the switch does not name.
NativeStates == DOMAIN_NOSTATE .. (DOMAIN_PMSUSPENDED + 1)

\* ------------------------------------------------------- uint64 arithmetic

\* A uint64 is four 16-bit limbs, least significant first.
U64(l1, l2, l3, l4) == << l1, l2, l3, l4 >>

\* x * k modulo 2^64, limb by limb with carry; the carry out of the top limb
\* is dropped, as Go's unsigned multiplication drops it.
MulU64(x, k) ==
  LET t1 == x[1] * k
      t2 == x[2] * k + (t1 \div 65536)
      t3 == x[3] * k + (t2 \div 65536)
      t4 == x[4] * k + (t3 \div 65536)
  IN  << t1 % 65536, t2 % 65536, t3 % 65536, t4 % 65536 >>

\* Kilobyte counts the hypervisor may report: 2048, 4096, 2^54 - 1 (the
\* largest whose byte count fits 64 bits) and 2^54 + 1 (whose does not).
KBValues ==
  { U64(2048, 0, 0, 0), U64(4096, 0, 0, 0), U64(65535, 65535, 65535, 63),
    U64(1, 0, 0, 64) }

ZeroU64 == U64(0, 0, 0, 0)

\* ------------------------------------------------------------------ state

VARIABLES
  flags,      \* the command flags set on the command line
  vm,         \* --vm
  xmlTemplate,\* --xml-template
  pc,         \* the statement the process is at
  exit,       \* whether and how the process ended, and its exit status
  conn,       \* libvirtInstance: "nil", "open" or "closed"
  deferred,   \* whether main has registered defer libvirtInstance.Close()
  ran,        \* the handlers main's switch has entered, in order
  calls,      \* every library call made, in order
  out,        \* standard output, one record per write
  xml,        \* the bytes os.ReadFile returned
  arg,        \* the vm argument of GetVirtualMachineStateInfo
  d,          \* the domain reference held by the running handler
  dominfo,    \* the *DomainInfo returned by d.GetInfo()
  info,       \* the VirtualMachineStateInfo returned by the last query
  active,     \* AllDomains / AllDomainsActive
  inactive,   \* AllDomainsInactiv
  i,          \* index of the enumerated domain the loop is at
  builder,    \* OutputString of VirtualMachinesIps
  freed       \* the enumerated references released with Free()

vars ==
  << flags, vm, xmlTemplate, pc, exit, conn, deferred, ran, calls, out, xml,
     arg, d, dominfo, info, active, inactive, i, builder, freed >>

\* ---------------------------------------------------------------- helpers

\* The handler main's switch entered ("none" before the switch, or when no
\* flag is set).
Handler == IF ran = << >> THEN "none" ELSE ran[Len(ran)]

Call(op, a) == [op |-> op, arg |-> a]

\* strings.ReplaceAll(s, "\"", "") on a text held as a sequence of pieces.
StripQuotes(text) == SelectSeq(text, LAMBDA t : t # "\"")

\* herr with its test inverted: a real error prints nothing.
HerrInverted(o, e) ==
  IF e = NIL THEN Append(o, [kind |-> "err", text |-> StripQuotes(<< e >>)])
  ELSE o

\* herr: a non-nil error is printed, quotes stripped; the process goes on
\* (os.Exit(1) is commented out).
Herr(o, e) ==
  IF e # NIL THEN Append(o, [kind |-> "err", text |-> StripQuotes(<< e >>)])
  ELSE o

\* The process has not ended.
Running == [how |-> "running", code |-> -1]

\* A reporter that forgets os.Exit: the process goes on.
NoExit(code) == Running

\* os.Exit(code): the process ends at once; deferred calls do not run.
OsExit(code) == [how |-> "os.Exit", code |-> code]

\* The switch with the shutdown and shutoff cases in the other order.
DispatchShutoffFirst(f) ==
  IF "state" \in f THEN "state"
  ELSE IF "soft-reboot" \in f THEN "soft-reboot"
  ELSE IF "hard-reboot" \in f THEN "hard-reboot"
  ELSE IF "shutoff" \in f THEN "shutoff"
  ELSE IF "shutdown" \in f THEN "shutdown"
  ELSE IF "start" \in f THEN "start"
  ELSE IF "pause" \in f THEN "pause"
  ELSE IF "resume" \in f THEN "resume"
  ELSE IF "create" \in f THEN "create"
  ELSE IF "delete" \in f THEN "delete"
  ELSE IF "ips" \in f THEN "ips"
  ELSE IF "show-all" \in f THEN "show-all"
  ELSE "none"

\* main's switch: the first case whose flag is set.
Dispatch(f) ==
  IF "state" \in f THEN "state"
  ELSE IF "soft-reboot" \in f THEN "soft-reboot"
  ELSE IF "hard-reboot" \in f THEN "hard-reboot"
  ELSE IF "shutdown" \in f THEN "shutdown"
  ELSE IF "shutoff" \in f THEN "shutoff"
  ELSE IF "start" \in f THEN "start"
  ELSE IF "pause" \in f THEN "pause"
  ELSE IF "resume" \in f THEN "resume"
  ELSE IF "create" \in f THEN "create"
  ELSE IF "delete" \in f THEN "delete"
  ELSE IF "ips" \in f THEN "ips"
  ELSE IF "show-all" \in f THEN "show-all"
  ELSE "none"

\* The first statement of each handler.
Entry(h) ==
  CASE h = "state" -> "gsi_lookup"
    [] h \in OpHandlers -> "lookup"
    [] h = "create" -> "readfile"
    [] h = "ips" -> "ips_list"
    [] h = "show-all" -> "all_active"
    [] OTHER -> "return"

\* The handlers' calls with Shutdown and Destroy exchanged.
OpOfExchanged(h) ==
  CASE h = "delete" -> "UndefineFlags(KEEP_NVRAM)"
    [] h = "soft-reboot" -> "Reboot(DEFAULT)"
    [] h = "hard-reboot" -> "Reset"
    [] h = "shutdown" -> "Destroy"
    [] h = "shutoff" -> "Shutdown"
    [] h = "start" -> "Create"
    [] h = "pause" -> "Suspend"
    [] h = "resume" -> "Resume"

\* The one domain method each lookup-then-act handler calls.
OpOf(h) ==
  CASE h = "delete" -> "UndefineFlags(KEEP_NVRAM)"
    [] h = "soft-reboot" -> "Reboot(DEFAULT)"
    [] h = "hard-reboot" -> "Reset"
    [] h = "shutdown" -> "Shutdown"
    [] h = "shutoff" -> "Destroy"
    [] h = "start" -> "Create"
    [] h = "pause" -> "Suspend"
    [] h = "resume" -> "Resume"

\* The confirmation each handler passes to hok.
Message(h, v) ==
  CASE h = "delete" -> << v, " was deleted" >>
    [] h = "soft-reboot" -> << v, " was soft-rebooted successfully" >>
    [] h = "hard-reboot" -> << v, " was hard-rebooted successfully" >>
    [] h = "shutdown" -> << v, " was shutdown successfully" >>
    [] h = "shutoff" -> << v, " was shutoff successfully" >>
    [] h = "start" -> << v, " was started" >>
    [] h = "pause" -> << v, " is paused" >>
    [] h = "resume" -> << v, " was resumed" >>

\* The switch on dominfo.State: no default case, so an unnamed code leaves
\* the field at its zero value.
StatusOf(code) ==
  CASE code = DOMAIN_NOSTATE -> VirtStatePending
    [] code = DOMAIN_RUNNING -> VirtStateRunning
    [] code = DOMAIN_BLOCKED -> VirtStateBlocked
    [] code = DOMAIN_PAUSED -> VirtStatePaused
    [] code = DOMAIN_SHUTDOWN -> VirtStateShutdown
    [] code = DOMAIN_SHUTOFF -> VirtStateShutoff
    [] code = DOMAIN_CRASHED -> VirtStateCrashed
    [] code = DOMAIN_PMSUSPENDED -> VirtStateHybernating
    [] OTHER -> ZeroStatus

\* The state-info with the two memory fields taken from each other's source.
StateInfoOfExchanged(di) ==
  [ State |-> StatusOf(di.State),
    MaxMemoryBytes |-> MulU64(di.Memory, Kilo),
    MemoryBytes |-> MulU64(di.MaxMem, Kilo),
    CpuTime |-> di.CpuTime,
    CpuCount |-> di.NrVirtCpu ]

\* The VirtualMachineStateInfo built from a *DomainInfo.
StateInfoOf(di) ==
  [ State |-> StatusOf(di.State),
    MaxMemoryBytes |-> MulU64(di.MaxMem, Kilo),
    MemoryBytes |-> MulU64(di.Memory, Kilo),
    CpuTime |-> di.CpuTime,
    CpuCount |-> di.NrVirtCpu ]

\* The zero VirtualMachineStateInfo.
ZeroInfo ==
  [ State |-> ZeroStatus, MaxMemoryBytes |-> ZeroU64, MemoryBytes |-> ZeroU64,
    CpuTime |-> 0, CpuCount |-> 0 ]

\* What d.GetInfo() can return on success.
DomainInfos ==
  [ State : NativeStates, MaxMem : KBValues, Memory : KBValues,
    CpuTime : { 500 }, NrVirtCpu : { 2 } ]

\* json.Marshal of hret's argument: a state-info object, or a *libvirt.Domain
\* (no exported field: "{}", and "null" for a nil pointer).
Marshal(h) ==
  IF h = "state" THEN << info >>
  ELSE IF d = NIL THEN << "null" >> ELSE << "{}" >>

\* LookupDomainByName: a reference to the named domain, or nil and an error.
LookupDomainByName(n) == IF n \in Defined THEN n ELSE NIL

\* The lists ListAllDomains can return over the names in S: each domain at
\* most once, in any order.
DomainLists(S) ==
  { s \in UNION { [1..n -> S] : n \in 0..MaxDomains } :
      \A a, b \in 1..Len(s) : s[a] = s[b] => a = b }

Names(list) == { list[k] : k \in 1..Len(list) }

\* The enumerated domains in the order the loops visit them.
Enumerated == active \o inactive

\* What ListAllInterfaceAddresses can return on success.
InterfaceLists ==
  { << >>, << [Name |-> "eth0", Addrs |-> << "10.0.0.2" >>] >> }

\* ------------------------------------------------------------------- Init

\* The state after pflag.Parse(): any command line with at most MaxFlags
\* command flags; --vm and --xml-template are given with the flags that take
\* them and otherwise keep their default, the empty string.
Init ==
  /\ flags \in { f \in SUBSET AllFlags : Cardinality(f) <= MaxFlags }
  /\ vm \in IF flags \cap VmFlags # {} THEN VmNames ELSE { "" }
  /\ xmlTemplate \in IF "create" \in flags THEN XmlPaths ELSE { "" }
  /\ pc = "init"
  /\ exit = Running
  /\ conn = "nil"
  /\ deferred = FALSE
  /\ ran = << >>
  /\ calls = << >>
  /\ out = << >>
  /\ xml = ""
  /\ arg = ""
  /\ d = NIL
  /\ dominfo = NIL
  /\ info = ZeroInfo
  /\ active = << >>
  /\ inactive = << >>
  /\ i = 1
  /\ builder = << >>
  /\ freed = {}

\* ---------------------------------------------------------------- actions

\* A run-time panic (nil pointer dereference) after the library calls cs were
\* made: the deferred Close runs, then the process ends with status 2.
Panic(cs) ==
  /\ calls' = IF deferred THEN Append(cs, Call("Close", "")) ELSE cs
  /\ conn' = IF deferred THEN "closed" ELSE conn
  /\ exit' = [how |-> "panic", code |-> 2]
  /\ pc' = "done"

\* main: LibvirtInit() and defer libvirtInstance.Close().  A failed connect
\* is fatal: log.Fatalf ends the process with status 1.
LibvirtInit ==
  /\ pc = "init"
  /\ calls' = Append(calls, Call("NewConnect", "qemu:///system"))
  /\ \E ok \in BOOLEAN :
       IF ok
       THEN /\ conn' = "open"
            /\ deferred' = TRUE
            /\ pc' = "switch"
            /\ exit' = exit
       ELSE /\ conn' = "nil"
            /\ deferred' = FALSE
            /\ pc' = "done"
            /\ exit' = [how |-> "fatal", code |-> 1]
  /\ UNCHANGED << flags, vm, xmlTemplate, ran, out, xml, arg, d, dominfo, info,
                  active, inactive, i, builder, freed >>

\* main: the switch over the command flags.
MainSwitch ==
  /\ pc = "switch"
  /\ LET h == Dispatch(flags) IN
       /\ ran' = IF h = "none" THEN ran ELSE Append(ran, h)
       /\ pc' = Entry(h)
       /\ arg' = IF h = "state" THEN vm ELSE arg
  /\ UNCHANGED << flags, vm, xmlTemplate, exit, conn, deferred, calls, out, xml,
                  d, dominfo, info, active, inactive, i, builder, freed >>

\* main returns: the deferred Close runs and the process ends with status 0.
MainReturn ==
  /\ pc = "return"
  /\ calls' = Append(calls, Call("Close", ""))
  /\ conn' = "closed"
  /\ exit' = [how |-> "return", code |-> 0]
  /\ pc' = "done"
  /\ UNCHANGED << flags, vm, xmlTemplate, deferred, ran, out, xml, arg, d,
                  dominfo, info, active, inactive, i, builder, freed >>

\* VirtualMachineDelete .. VirtualMachineResume, first two statements:
\* d, err := LookupDomainByName(vm); herr(err).
Lookup ==
  /\ pc = "lookup"
  /\ d' = LookupDomainByName(vm)
  /\ calls' = Append(calls, Call("LookupDomainByName", vm))
  /\ out' = Herr(out, IF d' = NIL THEN "Domain not found" ELSE NIL)
  /\ pc' = "op"
  /\ UNCHANGED << flags, vm, xmlTemplate, exit, conn, deferred, ran, xml, arg,
                  dominfo, info, active, inactive, i, builder, freed >>

\* The handler's one call on d, and herr(err).  On a nil d the method
\* dereferences a nil pointer and panics before reaching the hypervisor.
DomainOp ==
  /\ pc = "op"
  /\ IF d = NIL
     THEN /\ Panic(calls)
          /\ out' = out
     ELSE /\ calls' = Append(calls, Call(OpOf(Handler), d))
          /\ \E ok \in BOOLEAN :
               out' = Herr(out, IF ok THEN NIL ELSE "operation failed")
          /\ pc' = "hok"
          /\ UNCHANGED << exit, conn >>
  /\ UNCHANGED << flags, vm, xmlTemplate, deferred, ran, xml, arg, d, dominfo,
                  info, active, inactive, i, builder, freed >>

\* hok(message): print {"ok":"<message>"} and os.Exit(0).
Hok ==
  /\ pc = "hok"
  /\ out' = Append(out, [kind |-> "ok",
                         text |-> StripQuotes(Message(Handler, vm))])
  /\ exit' = OsExit(0)
  /\ pc' = IF exit' = Running THEN "return" ELSE "done"
  /\ UNCHANGED << flags, vm, xmlTemplate, conn, deferred, ran, calls, xml, arg,
                  d, dominfo, info, active, inactive, i, builder, freed >>

\* The lookup of GetVirtualMachineStateInfo made twice over (a second try
\* after the first).
GsiLookupTwice ==
  /\ pc = "gsi_lookup"
  /\ d' = LookupDomainByName(arg)
  /\ calls' = calls \o << Call("LookupDomainByName", arg),
                          Call("LookupDomainByName", arg) >>
  /\ out' = Herr(out, IF d' = NIL THEN "Domain not found" ELSE NIL)
  /\ pc' = "gsi_info"
  /\ UNCHANGED << flags, vm, xmlTemplate, exit, conn, deferred, ran, xml, arg,
                  dominfo, info, active, inactive, i, builder, freed >>

\* GetVirtualMachineStateInfo: d, err := LookupDomainByName(vm); herr(err).
GsiLookup ==
  /\ pc = "gsi_lookup"
  /\ d' = LookupDomainByName(arg)
  /\ calls' = Append(calls, Call("LookupDomainByName", arg))
  /\ out' = Herr(out, IF d' = NIL THEN "Domain not found" ELSE NIL)
  /\ pc' = "gsi_info"
  /\ UNCHANGED << flags, vm, xmlTemplate, exit, conn, deferred, ran, xml, arg,
                  dominfo, info, active, inactive, i, builder, freed >>

\* GetVirtualMachineStateInfo: dominfo, err := d.GetInfo(); herr(err); the
\* field assignments and the switch; return.  A nil d panics in GetInfo, a
\* failed GetInfo returns a nil dominfo and dominfo.NrVirtCpu panics.
GsiInfo ==
  /\ pc = "gsi_info"
  /\ \/ /\ d = NIL
        /\ Panic(calls)
        /\ UNCHANGED << out, dominfo, info >>
     \/ /\ d # NIL
        /\ out' = Herr(out, "GetInfo failed")
        /\ Panic(Append(calls, Call("GetInfo", d)))
        /\ dominfo' = NIL
        /\ info' = info
     \/ /\ d # NIL
        /\ \E di \in DomainInfos :
             /\ dominfo' = di
             /\ info' = StateInfoOf(di)
        /\ calls' = Append(calls, Call("GetInfo", d))
        /\ pc' = IF Handler = "state" THEN "hret" ELSE "all_row"
        /\ UNCHANGED << out, exit, conn >>
  /\ UNCHANGED << flags, vm, xmlTemplate, deferred, ran, xml, arg, d, active,
                  inactive, i, builder, freed >>

\* hret(i): json.Marshal (which cannot fail on these payloads), herr(err),
\* print the document and os.Exit(0).
Hret ==
  /\ pc = "hret"
  /\ out' = Append(Herr(out, NIL), [kind |-> "json", text |-> Marshal(Handler)])
  /\ exit' = OsExit(0)
  /\ pc' = IF exit' = Running THEN "return" ELSE "done"
  /\ UNCHANGED << flags, vm, xmlTemplate, conn, deferred, ran, calls, xml, arg,
                  d, dominfo, info, active, inactive, i, builder, freed >>

\* VirtualMachineCreate: xml, err := os.ReadFile(xmlTemplate); herr(err).
ReadFile ==
  /\ pc = "readfile"
  /\ IF xmlTemplate = ReadablePath
     THEN /\ xml' = "<domain/>"
          /\ out' = Herr(out, NIL)
     ELSE /\ xml' = ""
          /\ out' = Herr(out, "open: no such file or directory")
  /\ pc' = "define"
  /\ UNCHANGED << flags, vm, xmlTemplate, exit, conn, deferred, ran, calls, arg,
                  d, dominfo, info, active, inactive, i, builder, freed >>

\* VirtualMachineCreate: d, err := DomainDefineXML(string(xml)); herr(err).
\* An empty document is never a valid definition.
DefineXML ==
  /\ pc = "define"
  /\ calls' = Append(calls, Call("DomainDefineXML", xml))
  /\ \E ok \in (IF xml = "" THEN { FALSE } ELSE BOOLEAN) :
       /\ d' = IF ok THEN "defined" ELSE NIL
       /\ out' = Herr(out, IF ok THEN NIL ELSE "define failed")
  /\ pc' = "hret"
  /\ UNCHANGED << flags, vm, xmlTemplate, exit, conn, deferred, ran, xml, arg,
                  dominfo, info, active, inactive, i, builder, freed >>

\* The text VirtualMachinesIps writes to OutputString for a domain's
\* interfaces: one line per interface, its addresses separated by spaces.
RECURSIVE AddrText(_)
AddrText(addrs) ==
  IF addrs = << >> THEN << >>
  ELSE << Head(addrs), " " >> \o AddrText(Tail(addrs))

RECURSIVE InterfaceText(_)
InterfaceText(ifs) ==
  IF ifs = << >> THEN << >>
  ELSE << "interface - ", Head(ifs).Name, ", address - " >>
       \o AddrText(Head(ifs).Addrs) \o << "\n" >>
       \o InterfaceText(Tail(ifs))

\* VirtualMachinesIps: ListAllDomains(RUNNING); herr(err); the header line.
IpsList ==
  /\ pc = "ips_list"
  /\ calls' = Append(calls, Call("ListAllDomains", "RUNNING"))
  /\ \/ /\ active' = << >>
        /\ out' = Herr(out, "ListAllDomains failed")
     \/ /\ active' \in DomainLists(Defined)
        /\ out' = Herr(out, NIL)
  /\ builder' = << "There are ", Len(active'), " running domains:\n" >>
  /\ i' = 1
  /\ pc' = "ips_loop"
  /\ UNCHANGED << flags, vm, xmlTemplate, exit, conn, deferred, ran, xml, arg,
                  d, dominfo, info, inactive, freed >>

\* VirtualMachinesIps, one iteration of the loop: GetName, herr,
\* ListAllInterfaceAddresses, herr, the interface lines, domain.Free().
IpsLoop ==
  /\ pc = "ips_loop"
  /\ i <= Len(active)
  /\ LET dom == active[i] IN
     \E gotName \in BOOLEAN, gotIfs \in BOOLEAN, ifs \in InterfaceLists :
       LET DomainName == IF gotName THEN dom ELSE ""
           AllDomainInterfaces == IF gotIfs THEN ifs ELSE << >>
       IN  /\ builder' = builder \o << "Domain - ", DomainName, ":\n" >>
                           \o InterfaceText(AllDomainInterfaces)
           /\ out' = Herr(Herr(out, IF gotName THEN NIL ELSE "GetName failed"),
                          IF gotIfs THEN NIL
                          ELSE "ListAllInterfaceAddresses failed")
           /\ calls' = calls \o << Call("GetName", dom),
                                   Call("ListAllInterfaceAddresses", dom),
                                   Call("Free", dom) >>
           /\ freed' = freed \cup { dom }
  /\ i' = i + 1
  /\ UNCHANGED << flags, vm, xmlTemplate, pc, exit, conn, deferred, ran, xml,
                  arg, d, dominfo, info, active, inactive >>

\* VirtualMachinesIps after the loop: print OutputString and return to main.
IpsPrint ==
  /\ pc = "ips_loop"
  /\ i > Len(active)
  /\ out' = Append(out, [kind |-> "text", text |-> builder])
  /\ pc' = "return"
  /\ UNCHANGED << flags, vm, xmlTemplate, exit, conn, deferred, ran, calls, xml,
                  arg, d, dominfo, info, active, inactive, i, builder, freed >>

\* VirtualMachinesStateAll: ListAllDomains(ACTIVE); herr(err).
AllActive ==
  /\ pc = "all_active"
  /\ calls' = Append(calls, Call("ListAllDomains", "ACTIVE"))
  /\ \/ /\ active' = << >>
        /\ out' = Herr(out, "ListAllDomains failed")
     \/ /\ active' \in DomainLists(Defined)
        /\ out' = Herr(out, NIL)
  /\ pc' = "all_inactive"
  /\ UNCHANGED << flags, vm, xmlTemplate, exit, conn, deferred, ran, xml, arg,
                  d, dominfo, info, inactive, i, builder, freed >>

\* VirtualMachinesStateAll: ListAllDomains(INACTIVE); herr(err); the summary
\* line.  A domain is not both active and inactive.
AllInactive ==
  /\ pc = "all_inactive"
  /\ calls' = Append(calls, Call("ListAllDomains", "INACTIVE"))
  /\ \E failed \in BOOLEAN :
       /\ inactive' \in IF failed THEN { << >> }
                        ELSE DomainLists(Defined \ Names(active))
       /\ out' = Append(Herr(out, IF failed THEN "ListAllDomains failed"
                                  ELSE NIL),
                        [kind |-> "text",
                         text |-> << "There are ",
                                     Len(active) + Len(inactive'),
                                     " domains: ", Len(active), " active and ",
                                     Len(inactive'), " inactive" >>])
  /\ i' = 1
  /\ pc' = "all_loop"
  /\ UNCHANGED << flags, vm, xmlTemplate, exit, conn, deferred, ran, xml, arg,
                  d, dominfo, info, active, builder, freed >>

\* PrintVirtualMachinesStatus, start of an iteration: GetName; herr(err);
\* the call of GetVirtualMachineStateInfo(DomainName).
AllLoop ==
  /\ pc = "all_loop"
  /\ i <= Len(Enumerated)
  /\ calls' = Append(calls, Call("GetName", Enumerated[i]))
  /\ \E gotName \in BOOLEAN :
       /\ arg' = IF gotName THEN Enumerated[i] ELSE ""
       /\ out' = Herr(out, IF gotName THEN NIL ELSE "GetName failed")
  /\ pc' = "gsi_lookup"
  /\ UNCHANGED << flags, vm, xmlTemplate, exit, conn, deferred, ran, xml, d,
                  dominfo, info, active, inactive, i, builder, freed >>

\* PrintVirtualMachinesStatus, end of an iteration: the table row.  The
\* domain is not released; VmState goes out of scope.
AllRow ==
  /\ pc = "all_row"
  /\ out' = Append(out, [kind |-> "text", text |-> << arg, info.State >>])
  /\ i' = i + 1
  /\ dominfo' = NIL
  /\ info' = ZeroInfo
  /\ pc' = "all_loop"
  /\ UNCHANGED << flags, vm, xmlTemplate, exit, conn, deferred, ran, calls, xml,
                  arg, d, active, inactive, builder, freed >>

\* Both PrintVirtualMachinesStatus loops are over: return to main.
AllDone ==
  /\ pc = "all_loop"
  /\ i > Len(Enumerated)
  /\ pc' = "return"
  /\ UNCHANGED << flags, vm, xmlTemplate, exit, conn, deferred, ran, calls, out,
                  xml, arg, d, dominfo, info, active, inactive, i, builder,
                  freed >>

\* ------------------------------------------------------------ specification

Next ==
  \/ LibvirtInit
  \/ MainSwitch
  \/ MainReturn
  \/ Lookup
  \/ DomainOp
  \/ Hok
  \/ GsiLookup
  \/ GsiInfo
  \/ Hret
  \/ ReadFile
  \/ DefineXML
  \/ IpsList
  \/ IpsLoop
  \/ IpsPrint
  \/ AllActive
  \/ AllInactive
  \/ AllLoop
  \/ AllRow
  \/ AllDone

Spec == Init /\ [][Next]_vars

\* ------------------------------------------------------ claim vocabulary

Terminated == exit # Running

\* The number of library calls named op made so far.
CountCalls(op) == Cardinality({ k \in 1..Len(calls) : calls[k].op = op })

\* The success documents written so far: hok's {"ok":...} and hret's JSON.
SuccessAt == { k \in 1..Len(out) : out[k].kind \in { "ok", "json" } }
ErrorAt == { k \in 1..Len(out) : out[k].kind = "err" }

\* The nine handlers that look a VM up by name.
NameHandlers == OpHandlers \cup { "state" }
\* The ten state-changing or state-reading handlers.
TenHandlers == NameHandlers \cup { "create" }

\* The name lookup of a by-name handler has been made and found nothing.
LookupFailed ==
  /\ Handler \in NameHandlers
  /\ CountCalls("LookupDomainByName") > 0
  /\ d = NIL

\* The handler's query has just returned a fresh state-info.
InfoFresh == (pc = "hret" /\ Handler = "state") \/ pc = "all_row"

\* ------------------------------------------------------------------ claims

\* C1: in every handler that looks a VM up by name, a failed name lookup is
\* followed by an error report and by no success report, up to and including
\* the end of the process.
C1_FailedLookupReportsErrorOnly ==
  LookupFailed => (ErrorAt # {} /\ SuccessAt = {})

\* C1 witness: a by-name handler whose lookup failed, at the end of the process.
C1_Witness == LookupFailed /\ Terminated /\ Handler = "delete"

\* C2: create with an unreadable template writes no success payload.
C2_UnreadableTemplateNoSuccess ==
  (Handler = "create" /\ xmlTemplate # ReadablePath) => SuccessAt = {}

\* C3: a connection that was opened is closed by the time the process has
\* terminated, on every exit path.
C3_ConnectionClosedOnEveryExit ==
  (Terminated /\ CountCalls("NewConnect") > 0 /\ conn # "nil")
    => conn = "closed"

\* The first set flag in the fixed priority order.
FirstSetFlag(f) ==
  FlagOrder[CHOOSE k \in 1..Len(FlagOrder) :
              /\ FlagOrder[k] \in f
              /\ \A j \in 1..(k - 1) : FlagOrder[j] \notin f]

\* C4: at most one handler runs; once the switch has been passed it is the
\* first set flag in the priority order; with no flag set no handler runs and
\* the only library calls are the connect and the close.
C4_FirstSetFlagRunsAlone ==
  /\ Len(ran) <= 1
  /\ (pc \notin { "init", "switch" } /\ conn # "nil") =>
       ran = IF flags = {} THEN << >> ELSE << FirstSetFlag(flags) >>
  /\ flags = {} =>
       \A k \in 1..Len(calls) : calls[k].op \in { "NewConnect", "Close" }

\* C4 witness: two flags set, the later one in the priority order did not run.
C4_Witness ==
  /\ flags = { "shutoff", "shutdown" }
  /\ ran = << "shutdown" >>
  /\ Terminated

\* The call the handler table gives each flag, by its library name:
\* getInfo, start (Create), destroy, shutdown, reboot(default), reset,
\* suspend, resume, defineFromXML, undefine(keep-NVRAM).
TableCall(h) ==
  CASE h = "state" -> "GetInfo"
    [] h = "start" -> "Create"
    [] h = "shutoff" -> "Destroy"
    [] h = "shutdown" -> "Shutdown"
    [] h = "soft-reboot" -> "Reboot(DEFAULT)"
    [] h = "hard-reboot" -> "Reset"
    [] h = "pause" -> "Suspend"
    [] h = "resume" -> "Resume"
    [] h = "create" -> "DomainDefineXML"
    [] h = "delete" -> "UndefineFlags(KEEP_NVRAM)"

TableCalls == { TableCall(h) : h \in TenHandlers }

\* The state-changing and state-reading calls made so far.
TableCallsMade == SelectSeq(calls, LAMBDA c : c.op \in TableCalls)

\* What the handler's call is made on: the domain named --vm, or for create
\* the text of the template.
CallTarget == IF Handler = "create" THEN xml ELSE vm

\* C5 as stated: every invocation of one of the ten handlers has made, when
\* it ends, exactly one table call: the handler's own, on the VM named.
C5_ExactlyOneCallAlways ==
  (Terminated /\ Handler \in TenHandlers) =>
    TableCallsMade = << Call(TableCall(Handler), CallTarget) >>

\* C5 amended: a handler never makes more than one table call and never
\* another handler's; when it ends it has made its call exactly once if the
\* name lookup succeeded (create: always) and not at all if the lookup failed.
C5_OneCallWhenLookupSucceeds ==
  Handler \in TenHandlers =>
    /\ Len(TableCallsMade) <= 1
    /\ \A k \in 1..Len(TableCallsMade) :
         TableCallsMade[k] = Call(TableCall(Handler), CallTarget)
    /\ Terminated =>
         Len(TableCallsMade) =
           IF Handler = "create" \/ vm \in Defined THEN 1 ELSE 0

\* C5 witness: shutoff on an existing VM has ended with its one call made.
C5_Witness ==
  /\ Terminated
  /\ Handler = "shutoff"
  /\ TableCallsMade = << Call("Destroy", "testbox") >>

\* The status the claim gives each native state code.
ClaimedStatus(code) ==
  CASE code = DOMAIN_NOSTATE -> "pending"
    [] code = DOMAIN_RUNNING -> "running"
    [] code = DOMAIN_BLOCKED -> "blocked"
    [] code = DOMAIN_PAUSED -> "paused"
    [] code = DOMAIN_SHUTDOWN -> "shutdown"
    [] code = DOMAIN_SHUTOFF -> "shutoff"
    [] code = DOMAIN_CRASHED -> "crashed"
    [] code = DOMAIN_PMSUSPENDED -> "hibernating"
    [] OTHER -> "unknown"

\* C6: the translated status is the one named for the native code, and an
\* explicit unknown marker for a code outside the eight.
C6_TranslationNamedOrUnknown ==
  InfoFresh => info.State = ClaimedStatus(dominfo.State)

\* C7 as stated: at most one connection is opened and at most one lookup by
\* name is made, whichever handler runs.
C7_OneConnectOneLookup ==
  /\ CountCalls("NewConnect") <= 1
  /\ CountCalls("LookupDomainByName") <= 1

\* C7 amended: at most one connection is opened; a by-name handler makes at
\* most one lookup, create, ips and the no-flag run make none, and show-all
\* makes at most one per enumerated domain (one for each domain visited).
C7_OneLookupPerDomainVisited ==
  /\ CountCalls("NewConnect") <= 1
  /\ Handler \in NameHandlers => CountCalls("LookupDomainByName") <= 1
  /\ Handler \in { "create", "ips", "none" } =>
       CountCalls("LookupDomainByName") = 0
  /\ Handler = "show-all" =>
       /\ CountCalls("LookupDomainByName") <= Len(Enumerated)
       /\ CountCalls("LookupDomainByName") <= CountCalls("GetName")
       /\ CountCalls("LookupDomainByName") \in { i - 1, i }

\* C7 witness: show-all has returned after a lookup for each of two domains.
C7_Witness ==
  /\ Handler = "show-all"
  /\ exit.how = "return"
  /\ CountCalls("LookupDomainByName") = 2

\* C8: a success document is terminal: once one is on standard output the
\* process has ended through os.Exit with status 0, the document is the only
\* success document and nothing was written after it.
C8_SuccessReportIsTerminal ==
  SuccessAt # {} =>
    /\ exit = [how |-> "os.Exit", code |-> 0]
    /\ pc = "done"
    /\ SuccessAt = { Len(out) }

\* C8 witness: a success document written after an error line.
C8_Witness == SuccessAt # {} /\ ErrorAt # {}

\* C9: when an enumeration handler has returned to main, every reference its
\* enumeration calls returned has been released.
C9_EnumeratedReferencesReleased ==
  (Handler \in { "ips", "show-all" } /\ pc \in { "return", "done" }
     /\ exit.how \in { "running", "return" })
    => Names(Enumerated) \subseteq freed

\* r \div 1024, limb by limb.
ShiftRight10(r) ==
  << (r[1] \div 1024) + (r[2] % 1024) * 64,
     (r[2] \div 1024) + (r[3] % 1024) * 64,
     (r[3] \div 1024) + (r[4] % 1024) * 64,
     r[4] \div 1024 >>

\* bytes = kb * 1024 modulo 2^64: bytes is a multiple of 1024 whose quotient
\* is kb with its ten top bits dropped; kb itself when kb < 2^54, that is when
\* the product fits 64 bits.
IsKilobytesInBytes(bytes, kb) ==
  /\ bytes[1] % 1024 = 0
  /\ ShiftRight10(bytes) = << kb[1], kb[2], kb[3], kb[4] % 64 >>
  /\ kb[4] < 64 => ShiftRight10(bytes) = kb

\* C10: each byte field of a fresh state-info is the hypervisor's kilobyte
\* value times 1024, exactly when that fits 64 bits and modulo 2^64 otherwise.
C10_MemoryBytesAreKilobytesTimes1024 ==
  InfoFresh =>
    /\ IsKilobytesInBytes(info.MemoryBytes, dominfo.Memory)
    /\ IsKilobytesInBytes(info.MaxMemoryBytes, dominfo.MaxMem)

\* C10 witness: the largest kilobyte count whose byte count fits, beside one
\* whose byte count does not.
C10_Witness ==
  /\ InfoFresh
  /\ dominfo.Memory = U64(65535, 65535, 65535, 63)
  /\ dominfo.MaxMem = U64(1, 0, 0, 64)
  /\ info.MemoryBytes = U64(64512, 65535, 65535, 65535)
  /\ info.MaxMemoryBytes = U64(1024, 0, 0, 0)

====
